---- MODULE Spec2Model ----
(***************************************************************************)
(* Model of the Answer component                                           *)
(* (src/app/frontend/src/components/Answer/Answer.tsx): its local state    *)
(* (copied, feedbackState, isFeedbackDialogOpen, feedbackMessage), the     *)
(* handlers handleCopy, handleFeedback, handleFeedbackSubmit, the dialog's *)
(* inline handlers, the clipboard promise and the 2000 ms reset timer.     *)
(*                                                                         *)
(* Strings are sequences of one-character strings so that trim() and the   *)
(* regular expression of handleCopy are computed character by character.   *)
(***************************************************************************)
EXTENDS Integers, Sequences, FiniteSets, TLC

\* ------------------------------------------------------------------ bounds
MaxMsgLen == 1      \* longest feedback message typed into the TextField
MaxCalls == 2       \* onFeedbackProvided invocations recorded in one run
MaxOutstanding == 2 \* copies whose write or reset timer is still outstanding
MaxTokens == 5      \* tokens of an answer drawn by InitStrip

\* ------------------------------------------------------- program constants
\* the delay of the reset timer
CopiedResetMs == 2000   \* setTimeout(() => setCopied(false), 2000)
TickMs == CopiedResetMs \div 2   \* granularity of the modelled clock

\* Feedback enumeration (imported from ../../api)
Neutral == "Neutral"
Positive == "Positive"
Negative == "Negative"
Feedback == {Neutral, Positive, Negative}

VARIABLES
    onFeedbackProvided,     \* prop: TRUE iff the caller supplied the callback
    answerTokens,           \* the answer as a token list (ghost of the HTML)
    sanitizedAnswerHtml,    \* the sanitized HTML, a sequence of characters
    copied,                 \* useState(false)
    feedbackState,          \* useState(Feedback.Neutral)
    isFeedbackDialogOpen,   \* useState(false)
    feedbackMessage,        \* useState("")
    pendingWrites,          \* texts handed to clipboard.writeText, unsettled
    clipboard,              \* [set, text]: what the clipboard holds
    timers,                 \* elapsed ms of each outstanding reset timer
    calls,                  \* invocations of onFeedbackProvided, in order
    lastOp,                 \* history: the last operation performed
    prevFeedbackState,      \* history: feedbackState before the last operation
    priorFeedback,          \* history: feedbackState before the dialog opened
    dialogEvent,            \* history: last dialog event
    sinceCopy               \* history: ms since the last successful copy

vars == <<onFeedbackProvided, answerTokens, sanitizedAnswerHtml, copied,
          feedbackState, isFeedbackDialogOpen, feedbackMessage, pendingWrites,
          clipboard, timers, calls, lastOp, prevFeedbackState,
          priorFeedback, dialogEvent, sinceCopy>>

\* ----------------------------------------------------------------- strings
RECURSIVE SeqsUpTo(_, _)
SeqsUpTo(S, n) ==
    IF n = 0 THEN {<<>>}
    ELSE LET shorter == SeqsUpTo(S, n - 1)
         IN shorter \cup {Append(s, c) : s \in {t \in shorter : Len(t) = n - 1}, c \in S}

RECURSIVE Concat(_)
Concat(ss) == IF ss = <<>> THEN <<>> ELSE Head(ss) \o Concat(Tail(ss))

WhiteSpace == {" "}
MsgChars == {" ", "a"}
Messages == SeqsUpTo(MsgChars, MaxMsgLen)

RECURSIVE TrimStart(_)
TrimStart(s) ==
    IF s # <<>> /\ Head(s) \in WhiteSpace THEN TrimStart(Tail(s)) ELSE s

RECURSIVE TrimEnd(_)
TrimEnd(s) ==
    IF s # <<>> /\ s[Len(s)] \in WhiteSpace
    THEN TrimEnd(SubSeq(s, 1, Len(s) - 1)) ELSE s

\* String.prototype.trim
Trim(s) == TrimEnd(TrimStart(s))


\* ------------------------------------------------- the answer's HTML tokens
TextH == <<"H">>
TextDigit == <<"1">>
TagB == <<"<", "b", ">">>
AnchorOpen == <<"<", "a", " ", "x", ">">>
AnchorClose == <<"<", "/", "a", ">">>
SupOpen == <<"<", "s", "u", "p", ">">>
SupClose == <<"<", "/", "s", "u", "p", ">">>
Citation == AnchorOpen \o SupOpen \o TextDigit \o SupClose \o AnchorClose

Tokens == {TextH, TextDigit, TagB, AnchorOpen, AnchorClose, SupOpen, SupClose, Citation}
TokenLists == SeqsUpTo(Tokens, MaxTokens)

\* the answer rendered by the feedback/copy state machine: a citation, text,
\* a tag and more text
SampleAnswer == <<Citation, TextH, TagB, TextH>>

\* --------------------------- handleCopy's regular expression, by characters
\*   /<a [^>]*><sup>\d+<\/sup><\/a>|<[^>]+>/g
Digits == {"0", "1", "2", "3", "4", "5", "6", "7", "8", "9"}

\* the literal lit occurs in s at position i
LitAt(s, i, lit) ==
    /\ i + Len(lit) - 1 <= Len(s)
    /\ SubSeq(s, i, i + Len(lit) - 1) = lit

\* [^>]* from position i (greedy): the first position holding ">" or Len(s)+1
RECURSIVE SkipNotGt(_, _)
SkipNotGt(s, i) ==
    IF i > Len(s) \/ s[i] = ">" THEN i ELSE SkipNotGt(s, i + 1)

\* \d* from position i (greedy): the first position not holding a digit
RECURSIVE SkipDigits(_, _)
SkipDigits(s, i) ==
    IF i > Len(s) \/ s[i] \notin Digits THEN i ELSE SkipDigits(s, i + 1)

\* first alternative, <a [^>]*><sup>\d+<\/sup><\/a>, at position i: the
\* position after the match, 0 when it does not match
MatchCitation(s, i) ==
    IF ~LitAt(s, i, <<"<", "a", " ">>) THEN 0
    ELSE LET j == SkipNotGt(s, i + 3)
         IN IF ~(LitAt(s, j, <<">">>) /\ LitAt(s, j + 1, SupOpen)) THEN 0
            ELSE LET k == SkipDigits(s, j + 6)
                 IN IF k > j + 6 /\ LitAt(s, k, SupClose \o AnchorClose)
                    THEN k + 10 ELSE 0

\* second alternative, <[^>]+>, at position i
MatchTag(s, i) ==
    IF ~LitAt(s, i, <<"<">>) THEN 0
    ELSE LET j == SkipNotGt(s, i + 1)
         IN IF j >= i + 2 /\ LitAt(s, j, <<">">>) THEN j + 1 ELSE 0

\* mutant: the citation alternative is missing from the expression
MatchAt_TagOnly(s, i) == MatchTag(s, i)

\* the alternation: the first alternative that matches at i wins
MatchAt(s, i) ==
    LET c == MatchCitation(s, i) IN IF c # 0 THEN c ELSE MatchTag(s, i)

\* String.prototype.replace(re /g, ""): left to right, every match dropped
RECURSIVE ReplaceFrom(_, _)
ReplaceFrom(s, i) ==
    IF i > Len(s) THEN <<>>
    ELSE LET m == MatchAt(s, i)
         IN IF m # 0 THEN ReplaceFrom(s, m)
            ELSE <<s[i]>> \o ReplaceFrom(s, i + 1)

TextToCopy(html) == ReplaceFrom(html, 1)

\* ---------------------------------------------------------------- state
Min(a, b) == IF a < b THEN a ELSE b

Call(feedback) == [feedback |-> feedback, hasMessage |-> FALSE, message |-> <<>>]
CallWithMessage(feedback, message) ==
    [feedback |-> feedback, hasMessage |-> TRUE, message |-> message]

InitLocal ==
    /\ copied = FALSE
    /\ feedbackState = Neutral
    /\ isFeedbackDialogOpen = FALSE
    /\ feedbackMessage = <<>>
    /\ pendingWrites = <<>>
    /\ clipboard = [set |-> FALSE, text |-> <<>>]
    /\ timers = <<>>
    /\ calls = <<>>
    /\ lastOp = "init"
    /\ prevFeedbackState = Neutral
    /\ priorFeedback = Neutral
    /\ dialogEvent = "none"
    /\ sinceCopy = CopiedResetMs

Init ==
    /\ onFeedbackProvided \in BOOLEAN
    /\ answerTokens = SampleAnswer
    /\ sanitizedAnswerHtml = Concat(answerTokens)
    /\ InitLocal

props == <<onFeedbackProvided, answerTokens, sanitizedAnswerHtml>>
copyVars == <<copied, pendingWrites, clipboard, timers, sinceCopy>>
feedbackVars == <<feedbackState, isFeedbackDialogOpen, feedbackMessage, calls,
                  priorFeedback, dialogEvent>>

\* ------------------------------------------------------------- handlers
\* mutant: the Negative branch notifies the caller at once
handleFeedback_NotifiesNegative(feedback) ==
    IF ~onFeedbackProvided
    THEN UNCHANGED <<feedbackState, isFeedbackDialogOpen, calls>>
    ELSE LET newState == IF feedbackState = feedback /\ feedback # Negative
                         THEN Neutral ELSE feedback
         IN /\ feedbackState' = newState
            /\ isFeedbackDialogOpen' = (feedback = Negative \/ isFeedbackDialogOpen)
            /\ calls' = Append(calls, Call(newState))

\* mutant: the Negative branch opens the dialog without setFeedbackState
handleFeedback_NoSetNegative(feedback) ==
    IF ~onFeedbackProvided
    THEN UNCHANGED <<feedbackState, isFeedbackDialogOpen, calls>>
    ELSE IF feedback = Negative
    THEN /\ isFeedbackDialogOpen' = TRUE
         /\ UNCHANGED <<feedbackState, calls>>
    ELSE LET newState == IF feedbackState = feedback THEN Neutral ELSE feedback
         IN /\ feedbackState' = newState
            /\ calls' = Append(calls, Call(newState))
            /\ UNCHANGED isFeedbackDialogOpen

\* mutant: no toggle, the selected feedback is always the new state
handleFeedback_NoToggle(feedback) ==
    IF ~onFeedbackProvided
    THEN UNCHANGED <<feedbackState, isFeedbackDialogOpen, calls>>
    ELSE IF feedback = Negative
    THEN /\ feedbackState' = feedback
         /\ isFeedbackDialogOpen' = TRUE
         /\ UNCHANGED calls
    ELSE /\ feedbackState' = feedback
         /\ calls' = Append(calls, Call(feedback))
         /\ UNCHANGED isFeedbackDialogOpen

handleFeedback(feedback) ==
    IF ~onFeedbackProvided
    THEN UNCHANGED <<feedbackState, isFeedbackDialogOpen, calls>>
    ELSE IF feedback = Negative
    THEN /\ feedbackState' = feedback
         /\ isFeedbackDialogOpen' = TRUE
         /\ UNCHANGED calls
    ELSE LET newState == IF feedbackState = feedback THEN Neutral ELSE feedback
         IN /\ feedbackState' = newState
            /\ calls' = Append(calls, Call(newState))
            /\ UNCHANGED isFeedbackDialogOpen

\* mutant: the message field is not cleared
handleFeedbackSubmit_NoClear ==
    /\ IF onFeedbackProvided
       THEN calls' = Append(calls, CallWithMessage(Negative, feedbackMessage))
       ELSE UNCHANGED calls
    /\ isFeedbackDialogOpen' = FALSE
    /\ UNCHANGED feedbackMessage

handleFeedbackSubmit ==
    /\ IF onFeedbackProvided
       THEN calls' = Append(calls, CallWithMessage(Negative, feedbackMessage))
       ELSE UNCHANGED calls
    /\ isFeedbackDialogOpen' = FALSE
    /\ feedbackMessage' = <<>>

\* mutant: disabled={!feedbackMessage}, without trim()
SubmitDisabled_NoTrim == feedbackMessage = <<>>

\* submit IconButton: disabled={!feedbackMessage.trim()}
SubmitDisabled == Trim(feedbackMessage) = <<>>

\* The Dialog is given no modalProps: it is modal, and while it is shown the
\* controls behind it (copy, like, dislike) cannot be activated.
BackgroundEnabled == ~isFeedbackDialogOpen

\* the like and dislike buttons are rendered only with a callback
FeedbackControlsRendered == onFeedbackProvided

\* the dialog's content is rendered only while hidden is false
DialogShown == isFeedbackDialogOpen

History(op) ==
    /\ lastOp' = op
    /\ prevFeedbackState' = feedbackState


\* -------------------------------------------------------------- actions
\* like IconButton: onClick={() => handleFeedback(Feedback.Positive)}
ClickLike ==
    /\ FeedbackControlsRendered
    /\ BackgroundEnabled
    /\ Len(calls) < MaxCalls
    /\ handleFeedback(Positive)
    /\ History("like")
    /\ UNCHANGED <<props, copyVars, feedbackMessage, priorFeedback, dialogEvent>>

\* dislike IconButton: onClick={() => handleFeedback(Feedback.Negative)}
ClickDislike ==
    /\ FeedbackControlsRendered
    /\ BackgroundEnabled
    /\ handleFeedback(Negative)
    /\ History("dislike")
    /\ priorFeedback' = feedbackState
    /\ dialogEvent' = "opened"
    /\ UNCHANGED <<props, copyVars, feedbackMessage>>

\* TextField: onChange={(_, newValue) => setFeedbackMessage(newValue || "")}
\* newValue is a string, or undefined when defined is FALSE
EditMessage(defined, newValue) ==
    /\ DialogShown
    /\ feedbackMessage' = IF defined /\ newValue # <<>> THEN newValue ELSE <<>>
    /\ History("edit")
    /\ UNCHANGED <<props, copyVars, feedbackState, isFeedbackDialogOpen, calls,
                   priorFeedback, dialogEvent>>

\* submit IconButton: onClick={handleFeedbackSubmit}
ClickSubmit ==
    /\ DialogShown
    /\ ~SubmitDisabled
    /\ Len(calls) < MaxCalls
    /\ handleFeedbackSubmit
    /\ History("submit")
    /\ dialogEvent' = "submitted"
    /\ UNCHANGED <<props, copyVars, feedbackState, priorFeedback>>

\* cancel IconButton: onClick={() => setIsFeedbackDialogOpen(false)}
ClickCancel ==
    /\ DialogShown
    /\ isFeedbackDialogOpen' = FALSE
    /\ History("cancel")
    /\ dialogEvent' = "cancelled"
    /\ UNCHANGED <<props, copyVars, feedbackState, feedbackMessage, calls,
                   priorFeedback>>

\* Dialog: onDismiss={() => setIsFeedbackDialogOpen(false)}
DismissDialog ==
    /\ DialogShown
    /\ isFeedbackDialogOpen' = FALSE
    /\ History("dismiss")
    /\ dialogEvent' = "cancelled"
    /\ UNCHANGED <<props, copyVars, feedbackState, feedbackMessage, calls,
                   priorFeedback>>

\* handleCopy up to the call of navigator.clipboard.writeText(textToCopy)
handleCopy ==
    LET textToCopy == TextToCopy(sanitizedAnswerHtml)
    IN pendingWrites' = Append(pendingWrites, textToCopy)

\* copy IconButton: onClick={handleCopy}
ClickCopy ==
    /\ BackgroundEnabled
    /\ Len(pendingWrites) + Len(timers) < MaxOutstanding
    /\ handleCopy
    /\ History("copy")
    /\ UNCHANGED <<props, feedbackVars, copied, clipboard, timers, sinceCopy>>

\* .then(() => { setCopied(true); setTimeout(() => setCopied(false), 2000); })
onWriteResolved ==
    /\ copied' = TRUE
    /\ timers' = Append(timers, 0)

\* the oldest clipboard write resolves
WriteResolved ==
    /\ pendingWrites # <<>>
    /\ clipboard' = [set |-> TRUE, text |-> Head(pendingWrites)]
    /\ pendingWrites' = Tail(pendingWrites)
    /\ onWriteResolved
    /\ sinceCopy' = 0
    /\ History("resolved")
    /\ UNCHANGED <<props, feedbackVars>>

\* mutant: the rejection handler shows the indicator and starts the timer
onWriteRejected_SetsCopied ==
    /\ copied' = TRUE
    /\ timers' = Append(timers, 0)

\* .catch(err => console.error("Failed to copy text: ", err)): the error goes
\* to the console and no state of the component changes
onWriteRejected ==
    UNCHANGED <<copied, timers>>

\* the oldest clipboard write is rejected
WriteRejected ==
    /\ pendingWrites # <<>>
    /\ pendingWrites' = Tail(pendingWrites)
    /\ onWriteRejected
    /\ History("rejected")
    /\ UNCHANGED <<props, feedbackVars, clipboard, sinceCopy>>

\* a timer is due once its delay has elapsed (it may fire later, not sooner)
TimerDue(elapsed) == elapsed >= CopiedResetMs

\* the oldest reset timer fires: () => setCopied(false)
TimerFire ==
    /\ timers # <<>>
    /\ TimerDue(Head(timers))
    /\ copied' = FALSE
    /\ timers' = Tail(timers)
    /\ History("timer")
    /\ UNCHANGED <<props, feedbackVars, pendingWrites, clipboard, sinceCopy>>

\* TickMs of time pass (elapsed times saturate at the delay)
Tick ==
    /\ timers' = [i \in 1..Len(timers) |-> Min(timers[i] + TickMs, CopiedResetMs)]
    /\ sinceCopy' = Min(sinceCopy + TickMs, CopiedResetMs)
    /\ History("tick")
    /\ UNCHANGED <<props, feedbackVars, copied, pendingWrites, clipboard>>

Next ==
    \/ ClickLike
    \/ ClickDislike
    \/ \E defined \in BOOLEAN, newValue \in Messages : EditMessage(defined, newValue)
    \/ ClickSubmit
    \/ ClickCancel
    \/ DismissDialog
    \/ ClickCopy
    \/ WriteResolved
    \/ WriteRejected
    \/ TimerFire
    \/ Tick

Spec == Init /\ [][Next]_vars


\* ------------------------------------------ the copy text over all answers
\* Every answer of at most MaxTokens tokens, copied once.
InitStrip ==
    /\ onFeedbackProvided = FALSE
    /\ answerTokens \in TokenLists
    /\ sanitizedAnswerHtml = Concat(answerTokens)
    /\ InitLocal

FirstCopy == lastOp = "init" /\ ClickCopy

NextStrip ==
    \/ FirstCopy
    \/ WriteResolved

SpecStrip == InitStrip /\ [][NextStrip]_vars

\* ====================================================================
\*                              Properties
\* ====================================================================
NegativeCalls(cs) == Cardinality({i \in DOMAIN cs : cs[i].feedback = Negative})
LastCall(cs) == cs[Len(cs)]

\* C1: whenever the feedback dialog is open, feedbackState is Negative and
\* neither submit nor cancel/dismiss has happened since it was opened.
C1_DialogOpenOnlyWhileNegativePending ==
    isFeedbackDialogOpen =>
        /\ feedbackState = Negative
        /\ dialogEvent = "opened"

\* C1 witness: the dialog was opened from Positive and a message was typed
C1_Witness ==
    /\ isFeedbackDialogOpen
    /\ lastOp = "edit"
    /\ priorFeedback = Positive
    /\ feedbackMessage # <<>>

\* C2: a dislike click opens the dialog and invokes no callback; from that
\* selection until the next submit no step adds a Negative invocation.
C2_NegativeNotReportedBeforeSubmit ==
    [][ /\ lastOp' = "dislike" => (isFeedbackDialogOpen' /\ calls' = calls)
        /\ (dialogEvent \in {"opened", "cancelled"} /\ lastOp' # "submit")
               => NegativeCalls(calls') = NegativeCalls(calls) ]_vars

\* C2 witness: Negative was selected, the dialog is open, nothing was reported
C2_Witness ==
    /\ lastOp = "dislike"
    /\ isFeedbackDialogOpen
    /\ calls = <<>>

\* C3 (as claimed): while the dialog opened by a Negative selection is still
\* open, feedbackState is the value it had before the selection.
C3_NegativeSelectionKeepsVisibleState ==
    (isFeedbackDialogOpen /\ dialogEvent = "opened") => feedbackState = priorFeedback

\* C4 (as claimed): cancel and dismiss close the dialog, invoke no callback
\* and leave feedbackState equal to its value before the dialog was opened.
C4_CancelRestoresPriorFeedback ==
    [][ lastOp' \in {"cancel", "dismiss"} =>
            /\ ~isFeedbackDialogOpen'
            /\ calls' = calls
            /\ feedbackState' = priorFeedback ]_vars

\* C5: submit with message m invokes the callback exactly once, with
\* (Negative, m); afterwards the dialog is closed and the message is empty.
C5_SubmitReportsAndClears ==
    [][ lastOp' = "submit" =>
            /\ calls' = Append(calls, CallWithMessage(Negative, feedbackMessage))
            /\ ~isFeedbackDialogOpen'
            /\ feedbackMessage' = <<>> ]_vars

\* C5 witness: a submit of the message "a" has just happened
C5_Witness ==
    /\ lastOp = "submit"
    /\ ~isFeedbackDialogOpen
    /\ feedbackMessage = <<>>
    /\ calls # <<>>
    /\ LastCall(calls) = CallWithMessage(Negative, <<"a">>)

\* C6: a like click while Neutral yields Positive, while Positive yields
\* Neutral, each with exactly one invocation carrying the new state; two like
\* clicks in a row starting from Neutral end in Neutral with the invocations
\* Positive then Neutral.
C6_PositiveToggles ==
    [][ /\ (lastOp' = "like" /\ feedbackState = Neutral)
               => (feedbackState' = Positive /\ calls' = Append(calls, Call(Positive)))
        /\ (lastOp' = "like" /\ feedbackState = Positive)
               => (feedbackState' = Neutral /\ calls' = Append(calls, Call(Neutral)))
        /\ (lastOp = "like" /\ lastOp' = "like" /\ prevFeedbackState = Neutral)
               => /\ feedbackState' = Neutral
                  /\ calls # <<>>
                  /\ LastCall(calls) = Call(Positive)
                  /\ calls' = Append(calls, Call(Neutral)) ]_vars

\* C6 witness: two like clicks from Neutral have happened
C6_Witness ==
    /\ lastOp = "like"
    /\ prevFeedbackState = Positive
    /\ feedbackState = Neutral
    /\ calls = <<Call(Positive), Call(Neutral)>>

\* C7: when a clipboard write resolves, copied becomes TRUE and a reset timer
\* starts; a reset timer fires only once 2000 ms have elapsed and sets copied
\* to FALSE; when a write is rejected, copied is not changed and no timer is
\* started.
C7_CopiedIndicatorLifecycle ==
    [][ /\ lastOp' = "resolved" =>
               /\ copied'
               /\ timers' = Append(timers, 0)
        /\ lastOp' = "timer" =>
               /\ ~copied'
               /\ timers # <<>>
               /\ Head(timers) >= CopiedResetMs
        /\ lastOp' = "rejected" =>
               /\ copied' = copied
               /\ timers' = timers ]_vars

\* C7 witness: a copy succeeded, its timer fired, and a later copy was
\* rejected leaving the indicator unset and no timer running
C7_Witness ==
    /\ lastOp = "rejected"
    /\ clipboard.set
    /\ ~copied
    /\ timers = <<>>

\* C8: the text handed to the clipboard is the answer's text tokens in order,
\* without any tag and without the citation anchors and their numbers.
ExpandToken(tok) ==
    IF tok = Citation THEN <<AnchorOpen, SupOpen, TextDigit, SupClose, AnchorClose>>
    ELSE <<tok>>

RECURSIVE ExpandTokens(_)
ExpandTokens(ts) ==
    IF ts = <<>> THEN <<>> ELSE ExpandToken(Head(ts)) \o ExpandTokens(Tail(ts))

IsTagToken(tok) == tok \in {TagB, AnchorOpen, AnchorClose, SupOpen, SupClose}

RECURSIVE SkipDigitTokens(_, _)
SkipDigitTokens(ts, i) ==
    IF i > Len(ts) \/ ts[i] # TextDigit THEN i ELSE SkipDigitTokens(ts, i + 1)

\* a citation anchor starts at token i: the position after it, else 0
CitationAnchorEnd(ts, i) ==
    IF ~(i + 1 <= Len(ts) /\ ts[i] = AnchorOpen /\ ts[i + 1] = SupOpen) THEN 0
    ELSE LET k == SkipDigitTokens(ts, i + 2)
         IN IF k > i + 2 /\ k + 1 <= Len(ts) /\ ts[k] = SupClose /\ ts[k + 1] = AnchorClose
            THEN k + 2 ELSE 0

RECURSIVE PlainTextFrom(_, _)
PlainTextFrom(ts, i) ==
    IF i > Len(ts) THEN <<>>
    ELSE IF CitationAnchorEnd(ts, i) # 0 THEN PlainTextFrom(ts, CitationAnchorEnd(ts, i))
    ELSE IF IsTagToken(ts[i]) THEN PlainTextFrom(ts, i + 1)
    ELSE ts[i] \o PlainTextFrom(ts, i + 1)

PlainText(tokens) == PlainTextFrom(ExpandTokens(tokens), 1)

IsPlain(text) ==
    /\ \A i \in DOMAIN text : text[i] \notin {"<", ">"}
    /\ text = PlainText(answerTokens)

C8_CopyTextIsPlain ==
    /\ \A i \in DOMAIN pendingWrites : IsPlain(pendingWrites[i])
    /\ clipboard.set => IsPlain(clipboard.text)

\* C8 witness: the answer "<a x><sup>1</sup></a>H<b>H" was copied as "HH"
C8_Witness ==
    /\ answerTokens = SampleAnswer
    /\ clipboard.set
    /\ clipboard.text = <<"H", "H">>

\* C9: every Negative invocation is added by a submit step taken while the
\* dialog is open and carries a message that is non-empty after trim(); a
\* like step adds exactly one invocation, never Negative.
C9_NegativeOnlyBySubmitWithMessage ==
    [][ /\ NegativeCalls(calls') > NegativeCalls(calls) =>
               /\ lastOp' = "submit"
               /\ isFeedbackDialogOpen
        /\ \A i \in DOMAIN calls' :
               calls'[i].feedback = Negative =>
                   (calls'[i].hasMessage /\ Trim(calls'[i].message) # <<>>)
        /\ lastOp' = "like" =>
               /\ Len(calls') = Len(calls) + 1
               /\ LastCall(calls').feedback # Negative ]_vars

\* C9 witness: a like was reported, then a Negative with a message
C9_Witness ==
    /\ Len(calls) = 2
    /\ calls[1] = Call(Positive)
    /\ calls[2].feedback = Negative
    /\ lastOp = "submit"

\* C10 (as claimed): the indicator stays TRUE until 2000 ms after the most
\* recent successful copy.
C10_IndicatorHeldSinceLastCopy ==
    sinceCopy < CopiedResetMs => copied

====
